---- MODULE Spec2Model ----
(***************************************************************************)
(* The block inserter menu of the editor                                   *)
(* (editor/components/inserter/menu.js): the exported searchBlocks and the *)
(* InserterMenu component -- its state {filterValue, tab}, its props       *)
(* (blockTypes, blocks, recentlyUsedBlocks, reusableBlocks, onSelect,      *)
(* fetchReusableBlocks), its handlers and what render() presents.          *)
(*                                                                         *)
(* A JavaScript string is a sequence of one-character strings, so that     *)
(* toLowerCase, trim and indexOf are computed character by character.      *)
(* A JavaScript object is a record; a property the object does not have    *)
(* (undefined) is a field the record does not have.                        *)
(***************************************************************************)
EXTENDS Integers, Sequences, FiniteSets, TLC

VARIABLES
    mounted,            \* componentDidMount has run
    filterValue,        \* this.state.filterValue
    tab,                \* this.state.tab
    blockTypes,         \* this.props.blockTypes (editor setting)
    blocks,             \* this.props.blocks (blocks placed in the document)
    recentlyUsedBlocks, \* this.props.recentlyUsedBlocks
    reusableBlocks,     \* this.props.reusableBlocks
    fetchStatus,        \* the fetchReusableBlocks request: none, pending, resolved, failed
    fetchRequests,      \* number of calls of this.props.fetchReusableBlocks
    onSelectCalls,      \* number of calls of this.props.onSelect
    lastOnSelect,       \* arguments of the latest call of this.props.onSelect
    clicked             \* the shown block the user clicked in the latest step, if any

vars == <<mounted, filterValue, tab, blockTypes, blocks, recentlyUsedBlocks,
          reusableBlocks, fetchStatus, fetchRequests, onSelectCalls,
          lastOnSelect, clicked>>

----------------------------------------------------------------------------
(* Bounds *)

\* longest text typed into the search field
MaxSearchLen == 2

\* most selections in one menu session
MaxSelections == 2

----------------------------------------------------------------------------
(* Strings *)

Chars == {"a", "b", "A", " "}

RECURSIVE TextsOfLen(_)
TextsOfLen(n) ==
    IF n = 0 THEN {<<>>}
    ELSE {Append(s, c) : s \in TextsOfLen(n - 1), c \in Chars}

\* every text of at most n characters
Texts(n) == UNION {TextsOfLen(k) : k \in 0..n}

\* String.prototype.toLowerCase
toLowerCase(s) == [i \in 1..Len(s) |-> IF s[i] = "A" THEN "a" ELSE s[i]]

RECURSIVE trimStart(_)
trimStart(s) ==
    IF s # <<>> /\ Head(s) = " " THEN trimStart(Tail(s)) ELSE s

RECURSIVE trimEnd(_)
trimEnd(s) ==
    IF s # <<>> /\ s[Len(s)] = " " THEN trimEnd(SubSeq(s, 1, Len(s) - 1)) ELSE s

\* String.prototype.trim
trim(s) == trimEnd(trimStart(s))

\* needle occurs in hay at the 0-based offset i
OccursAt(hay, needle, i) ==
    /\ i + Len(needle) <= Len(hay)
    /\ \A k \in 1..Len(needle) : hay[i + k] = needle[k]

\* String.prototype.indexOf: the first 0-based offset of needle in hay, or -1
indexOf(hay, needle) ==
    LET hits == {i \in 0..Len(hay) : OccursAt(hay, needle, i)}
    IN  IF hits = {} THEN -1
        ELSE CHOOSE i \in hits : \A j \in hits : i <= j

----------------------------------------------------------------------------
(* lodash helpers.  A predicate or an iteratee is a function on the *)
(* elements of the collection.                                      *)

\* the elements of a sequence
Range(seq) == {seq[i] : i \in 1..Len(seq)}

\* _.some( collection, predicate )
some(seq, predicate) == \E i \in 1..Len(seq) : predicate[seq[i]]

\* _.findIndex( array, predicate ): 0-based index of the first match, or -1
findIndex(seq, predicate) ==
    LET hits == {i \in 1..Len(seq) : predicate[seq[i]]}
    IN  IF hits = {} THEN -1
        ELSE (CHOOSE i \in hits : \A j \in hits : i <= j) - 1

RECURSIVE sortByFrom(_, _, _, _)
sortByFrom(seq, iteratee, k, maxKey) ==
    IF k > maxKey THEN <<>>
    ELSE SelectSeq(seq, LAMBDA x : iteratee[x] = k)
            \o sortByFrom(seq, iteratee, k + 1, maxKey)

\* _.sortBy( collection, iteratee ): a stable sort in ascending order of the
\* iteratee, whose values here lie in minKey..maxKey
sortBy(seq, iteratee, minKey, maxKey) == sortByFrom(seq, iteratee, minKey, maxKey)

\* _.groupBy( collection, iteratee ): an object with one key per value of the
\* iteratee, holding the elements with that value in their order
groupBy(seq, iteratee) ==
    [k \in {iteratee[x] : x \in Range(seq)} |->
        SelectSeq(seq, LAMBDA x : iteratee[x] = k)]

----------------------------------------------------------------------------
(* JavaScript values *)

\* a value that may be undefined
undefined == [defined |-> FALSE]
Defined(v) == [defined |-> TRUE, value |-> v]

\* obj[ key ]
Get(obj, key) == IF key \in DOMAIN obj THEN Defined(obj[key]) ELSE undefined

----------------------------------------------------------------------------
(* The host editor: block registry, category registry, store contents *)

\* getCategories() of the block registry, in its declared order
getCategories ==
    << [slug |-> "common", title |-> "Common Blocks"],
       [slug |-> "layout", title |-> "Layout Blocks"],
       [slug |-> "embed", title |-> "Embed"],
       [slug |-> "reusable-blocks", title |-> "Saved Blocks"] >>

More ==
    [name |-> "core/more", title |-> <<"A", "b">>, category |-> "layout",
     useOnce |-> TRUE]
Paragraph ==
    [name |-> "core/paragraph", title |-> <<"b", "A">>, category |-> "common",
     keywords |-> << <<"a", " ", "b">> >>]
Twitter ==
    [name |-> "core-embed/twitter", title |-> <<"b", "b">>, category |-> "embed",
     keywords |-> << <<"A">> >>, useOnce |-> FALSE]
Widget ==
    [name |-> "plugin/widget", title |-> <<"b">>, category |-> "plugin-widgets"]
Image ==
    [name |-> "core/image", title |-> <<"a", "a">>, category |-> "common",
     keywords |-> << <<"b">>, <<"A", "b">> >>, useOnce |-> FALSE]
CoreBlock ==
    [name |-> "core/block", title |-> <<"a", " ", "b">>,
     category |-> "reusable-blocks", isPrivate |-> TRUE]
Other ==
    [name |-> "plugin/other", title |-> <<"b", "a">>, category |-> "plugin-other",
     keywords |-> <<>>]

\* getBlockTypes() of the block registry, in registration order
getBlockTypes == <<More, Paragraph, Twitter, Widget, Image, CoreBlock, Other>>

\* values of the editor setting blockTypes: false, true, or a whitelist of
\* block names
NoBlockTypes == [truthy |-> FALSE, isArray |-> FALSE, names |-> <<>>]
AllBlockTypes == [truthy |-> TRUE, isArray |-> FALSE, names |-> <<>>]
CoreOnly ==
    [truthy |-> TRUE, isArray |-> TRUE,
     names |-> <<"core/paragraph", "core/more", "core-embed/twitter", "core/block">>]
WidgetOnly == [truthy |-> TRUE, isArray |-> TRUE, names |-> <<"plugin/widget">>]
PluginsOnly ==
    [truthy |-> TRUE, isArray |-> TRUE, names |-> <<"plugin/widget", "plugin/other">>]

\* documents: getBlocks( state )
EmptyDocument == <<>>
OneParagraph == << [uid |-> 1, name |-> "core/paragraph"] >>
WithMore ==
    << [uid |-> 1, name |-> "core/paragraph"], [uid |-> 2, name |-> "core/more"],
       [uid |-> 3, name |-> "core/paragraph"] >>

\* usage records: getRecentlyUsedBlocks( state )
NothingUsed == <<>>
UsedTwo == <<Image, Paragraph>>
UsedFour == <<More, CoreBlock, Widget, Paragraph>>

\* the editors a menu session is opened in
Sessions ==
    { [blockTypes |-> AllBlockTypes, blocks |-> WithMore, recentlyUsedBlocks |-> UsedFour],
      [blockTypes |-> AllBlockTypes, blocks |-> EmptyDocument, recentlyUsedBlocks |-> UsedTwo],
      [blockTypes |-> NoBlockTypes, blocks |-> OneParagraph, recentlyUsedBlocks |-> UsedTwo],
      [blockTypes |-> CoreOnly, blocks |-> OneParagraph, recentlyUsedBlocks |-> UsedFour],
      [blockTypes |-> WidgetOnly, blocks |-> EmptyDocument, recentlyUsedBlocks |-> UsedFour],
      [blockTypes |-> PluginsOnly, blocks |-> WithMore, recentlyUsedBlocks |-> NothingUsed] }

\* what the store can hold once the reusable blocks are fetched
FetchedReusableBlocks ==
    { <<>>,
      << [id |-> 1, title |-> <<"A", "a">>] >>,
      << [id |-> 2, title |-> <<"b">>], [id |-> 1, title |-> <<"A", "a">>] >> }

Tabs == {"recent", "blocks", "embeds", "saved"}

----------------------------------------------------------------------------
(* searchBlocks *)

Title(block) == block.title
Keywords(block) == IF "keywords" \in DOMAIN block THEN block.keywords ELSE <<>>
Category(block) == block.category

\* matchSearch with the result of indexOf used as the truth value
matchSearch_IndexAsBoolean(string, normalizedSearchTerm) ==
    indexOf(toLowerCase(string), normalizedSearchTerm) # 0

\* const matchSearch of searchBlocks
matchSearch(string, normalizedSearchTerm) ==
    indexOf(toLowerCase(string), normalizedSearchTerm) # -1

\* export const searchBlocks = ( blocks, searchTerm ) => ...
searchBlocks(blockList, searchTerm) ==
    LET normalizedSearchTerm == trim(toLowerCase(searchTerm))
    IN  SelectSeq(blockList, LAMBDA block :
            \/ matchSearch(Title(block), normalizedSearchTerm)
            \/ some(Keywords(block),
                    [keyword \in Range(Keywords(block)) |->
                        matchSearch(keyword, normalizedSearchTerm)]))

----------------------------------------------------------------------------
(* InserterMenu: state is this.state, the variables are this.props *)

\* a JavaScript string is truthy unless empty
Truthy(string) == string # <<>>

\* this.state after the constructor
InitialState == [filterValue |-> <<>>, tab |-> "recent"]

\* isDisabledBlock without the test of useOnce
isDisabledBlock_AnyPlaced(blockType) ==
    \E i \in 1..Len(blocks) : blockType.name = blocks[i].name

\* InserterMenu.isDisabledBlock, as a boolean
isDisabledBlock(blockType) ==
    /\ "useOnce" \in DOMAIN blockType
    /\ blockType.useOnce
    /\ \E i \in 1..Len(blocks) : blockType.name = blocks[i].name

\* InserterMenu.getStaticBlockTypes
getStaticBlockTypes ==
    IF ~blockTypes.truthy THEN <<>>
    ELSE SelectSeq(getBlockTypes, LAMBDA block :
            IF "isPrivate" \in DOMAIN block /\ block.isPrivate THEN FALSE
            ELSE \/ ~blockTypes.isArray
                 \/ \E i \in 1..Len(blockTypes.names) : blockTypes.names[i] = block.name)

\* getReusableBlockTypes with the position in the list for the id
getReusableBlockTypes_RefIsIndex ==
    [i \in 1..Len(reusableBlocks) |->
        [name |-> "core/block",
         initialAttributes |-> [ref |-> i],
         title |-> reusableBlocks[i].title,
         icon |-> "layout",
         category |-> "reusable-blocks"]]

\* InserterMenu.getReusableBlockTypes
getReusableBlockTypes ==
    [i \in 1..Len(reusableBlocks) |->
        [name |-> "core/block",
         initialAttributes |-> [ref |-> reusableBlocks[i].id],
         title |-> reusableBlocks[i].title,
         icon |-> "layout",
         category |-> "reusable-blocks"]]

\* InserterMenu.getBlockTypes
getAllBlockTypes == getStaticBlockTypes \o getReusableBlockTypes

\* InserterMenu.searchBlocks
searchBlocksOf(state, blockList) == searchBlocks(blockList, state.filterValue)

\* the name looked up in the whole registry instead
findByName_InRegistry(blockList, name) ==
    \E i \in 1..Len(getBlockTypes) : getBlockTypes[i].name = name

\* find( blockTypes, { name } ), as a boolean
findByName(blockList, name) == \E i \in 1..Len(blockList) : blockList[i].name = name

\* getBlocksForTab with || for && in the predicate of the blocks tab
getBlocksForTab_Or(state, tabKey) ==
    LET all == getAllBlockTypes
    IN  IF Truthy(state.filterValue) THEN all
        ELSE CASE tabKey = "recent" ->
                    SelectSeq(recentlyUsedBlocks, LAMBDA b : findByName(all, b.name))
               [] tabKey = "blocks" ->
                    SelectSeq(all, LAMBDA block :
                        Category(block) # "embed" \/ Category(block) # "reusable-blocks")
               [] tabKey = "embeds" ->
                    SelectSeq(all, LAMBDA block : Category(block) = "embed")
               [] tabKey = "saved" ->
                    SelectSeq(all, LAMBDA block : Category(block) = "reusable-blocks")
               [] OTHER -> all

\* InserterMenu.getBlocksForTab
getBlocksForTab(state, tabKey) ==
    LET all == getAllBlockTypes
    IN  IF Truthy(state.filterValue) THEN all
        ELSE CASE tabKey = "recent" ->
                    SelectSeq(recentlyUsedBlocks, LAMBDA b : findByName(all, b.name))
               [] tabKey = "blocks" ->
                    SelectSeq(all, LAMBDA block :
                        Category(block) # "embed" /\ Category(block) # "reusable-blocks")
               [] tabKey = "embeds" ->
                    SelectSeq(all, LAMBDA block : Category(block) = "embed")
               [] tabKey = "saved" ->
                    SelectSeq(all, LAMBDA block : Category(block) = "reusable-blocks")
               [] OTHER -> all

\* const getCategoryIndex of sortBlocks
getCategoryIndex(item) ==
    findIndex(getCategories,
              [category \in Range(getCategories) |-> category.slug = Category(item)])

\* sortBlocks with || for && in its test
sortBlocks_Or(state, blockList) ==
    IF "recent" = state.tab \/ ~Truthy(state.filterValue) THEN blockList
    ELSE sortBy(blockList, [item \in Range(blockList) |-> getCategoryIndex(item)],
                -1, Len(getCategories) - 1)

\* InserterMenu.sortBlocks
sortBlocks(state, blockList) ==
    IF "recent" = state.tab /\ ~Truthy(state.filterValue) THEN blockList
    ELSE sortBy(blockList, [item \in Range(blockList) |-> getCategoryIndex(item)],
                -1, Len(getCategories) - 1)

\* InserterMenu.groupByCategory
groupByCategory(blockList) ==
    groupBy(blockList, [blockType \in Range(blockList) |-> Category(blockType)])

\* InserterMenu.getVisibleBlocksByCategory
getVisibleBlocksByCategory(state, blockList) ==
    groupByCategory(sortBlocks(state, searchBlocksOf(state, blockList)))

----------------------------------------------------------------------------
(* What is rendered.  An element is a record; its field element names it. *)

\* { ...blockType, disabled: this.isDisabledBlock( blockType ) }
withDisabled(blockType) == ("disabled" :> isDisabledBlock(blockType)) @@ blockType

\* InserterMenu.renderBlocks; separatorSlug may be undefined
renderBlocks(blockList, separatorSlug) ==
    [element |-> "InserterGroup",
     labelledBy |-> separatorSlug,
     blockTypes |-> [i \in 1..Len(blockList) |-> withDisabled(blockList[i])]]

\* InserterMenu.renderCategory; blockList may be undefined, and then so is
\* the result
renderCategory(category, blockList) ==
    IF ~blockList.defined THEN undefined
    ELSE Defined([element |-> "div",
                  key |-> category.slug,
                  separator |-> category.title,
                  group |-> renderBlocks(blockList.value, Defined(category.slug))])

\* InserterMenu.renderCategories
renderCategories(visibleBlocksByCategory) ==
    IF DOMAIN visibleBlocksByCategory = {}
    THEN [element |-> "span", className |-> "editor-inserter__no-results"]
    ELSE [element |-> "categories",
          children |-> [i \in 1..Len(getCategories) |->
              renderCategory(getCategories[i],
                             Get(visibleBlocksByCategory, getCategories[i].slug))]]

\* renderTabView without the case of a sole category
renderTabView_AlwaysCategories(state, tabKey) ==
    LET blocksForTab == getBlocksForTab(state, tabKey)
        visibleBlocksByCategory == getVisibleBlocksByCategory(state, blocksForTab)
    IN  IF "recent" = tabKey THEN renderBlocks(blocksForTab, undefined)
        ELSE IF "saved" = tabKey /\ Len(blocksForTab) = 0
        THEN [element |-> "p", className |-> "editor-inserter__no-tab-content-message"]
        ELSE renderCategories(visibleBlocksByCategory)

\* InserterMenu.renderTabView
renderTabView(state, tabKey) ==
    LET blocksForTab == getBlocksForTab(state, tabKey)
        visibleBlocksByCategory == getVisibleBlocksByCategory(state, blocksForTab)
        categories == DOMAIN visibleBlocksByCategory
    IN  IF "recent" = tabKey THEN renderBlocks(blocksForTab, undefined)
        ELSE IF "saved" = tabKey /\ Len(blocksForTab) = 0
        THEN [element |-> "p", className |-> "editor-inserter__no-tab-content-message"]
        ELSE IF Cardinality(categories) = 1
        THEN renderBlocks(visibleBlocksByCategory[CHOOSE c \in categories : TRUE],
                          undefined)
        ELSE renderCategories(visibleBlocksByCategory)

\* InserterMenu.render: the tab panel showing the view of the selected tab,
\* or the search results.  The tab panel's selected tab is this.state.tab:
\* it starts on its first tab, recent, and reports every change to switchTab.
render(state) ==
    IF ~Truthy(state.filterValue)
    THEN [element |-> "TabPanel", content |-> renderTabView(state, state.tab)]
    ELSE [element |-> "search-results",
          content |-> renderCategories(
              getVisibleBlocksByCategory(state, getAllBlockTypes))]

RECURSIVE Flatten(_)
Flatten(seqs) == IF seqs = <<>> THEN <<>> ELSE Head(seqs) \o Flatten(Tail(seqs))

\* the items an element shows, in their order on the screen
ItemsOf(el) ==
    IF el.element = "InserterGroup" THEN el.blockTypes
    ELSE IF el.element = "categories"
    THEN Flatten([i \in 1..Len(el.children) |->
            IF el.children[i].defined THEN el.children[i].value.group.blockTypes
            ELSE <<>>])
    ELSE <<>>

----------------------------------------------------------------------------
(* The menu session *)

\* this.state
State == [filterValue |-> filterValue, tab |-> tab]

\* what the menu shows
View == render(State).content

\* InserterMenu.componentDidUpdate: what it hands to debouncedSpeak after an
\* update to state, the number of search results (0 for 'No results.'), or
\* undefined when it speaks nothing.  Nothing the menu reads is changed by it.
componentDidUpdate(state) ==
    IF Truthy(state.filterValue)
    THEN Defined(Len(searchBlocksOf(state, getAllBlockTypes)))
    ELSE undefined

Init ==
    /\ mounted = FALSE
    /\ filterValue = InitialState.filterValue
    /\ tab = InitialState.tab
    /\ \E session \in Sessions :
          /\ blockTypes = session.blockTypes
          /\ blocks = session.blocks
          /\ recentlyUsedBlocks = session.recentlyUsedBlocks
    /\ reusableBlocks = <<>>
    /\ fetchStatus = "none"
    /\ fetchRequests = 0
    /\ onSelectCalls = 0
    /\ lastOnSelect = undefined
    /\ clicked = undefined

\* InserterMenu.componentDidMount
componentDidMount ==
    /\ ~mounted
    /\ mounted' = TRUE
    /\ fetchRequests' = fetchRequests + 1
    /\ fetchStatus' = "pending"
    /\ clicked' = undefined
    /\ UNCHANGED <<filterValue, tab, blockTypes, blocks, recentlyUsedBlocks,
                   reusableBlocks, onSelectCalls, lastOnSelect>>

\* the fetch resolves: the store holds the fetched list, the menu updates
fetchSucceeds ==
    /\ fetchStatus = "pending"
    /\ \E fetched \in FetchedReusableBlocks : reusableBlocks' = fetched
    /\ fetchStatus' = "resolved"
    /\ clicked' = undefined
    /\ UNCHANGED <<mounted, filterValue, tab, blockTypes, blocks,
                   recentlyUsedBlocks, fetchRequests, onSelectCalls, lastOnSelect>>

\* the fetch fails: the store keeps its list
fetchFails ==
    /\ fetchStatus = "pending"
    /\ fetchStatus' = "failed"
    /\ clicked' = undefined
    /\ UNCHANGED <<mounted, filterValue, tab, blockTypes, blocks,
                   recentlyUsedBlocks, reusableBlocks, fetchRequests,
                   onSelectCalls, lastOnSelect>>

\* InserterMenu.filter, the search field's onChange
filter ==
    /\ mounted
    /\ \E value \in Texts(MaxSearchLen) : filterValue' = value
    /\ clicked' = undefined
    /\ UNCHANGED <<mounted, tab, blockTypes, blocks, recentlyUsedBlocks,
                   reusableBlocks, fetchStatus, fetchRequests, onSelectCalls,
                   lastOnSelect>>

\* InserterMenu.switchTab, the tab panel's onSelect; the tab panel is
\* rendered only while no search is active
switchTab ==
    /\ mounted
    /\ ~Truthy(filterValue)
    /\ \E t \in Tabs : tab' = t
    /\ clicked' = undefined
    /\ UNCHANGED <<mounted, filterValue, blockTypes, blocks, recentlyUsedBlocks,
                   reusableBlocks, fetchStatus, fetchRequests, onSelectCalls,
                   lastOnSelect>>

\* the arguments InserterMenu.selectBlock( block ) hands to onSelect
onSelectArguments(block) ==
    [name |-> block.name, initialAttributes |-> Get(block, "initialAttributes")]

\* the callback without its setState
selectBlockCallback_KeepsSearch(block) ==
    /\ onSelectCalls' = onSelectCalls + 1
    /\ lastOnSelect' = Defined(onSelectArguments(block))
    /\ filterValue' = filterValue
    /\ tab' = tab

\* the function InserterMenu.selectBlock( block ) returns
selectBlockCallback(block) ==
    /\ onSelectCalls' = onSelectCalls + 1
    /\ lastOnSelect' = Defined(onSelectArguments(block))
    /\ filterValue' = <<>>
    /\ tab' = tab

\* the user clicks a shown block: its onClick is selectBlock( block ); a block
\* marked disabled may not be inserted, its button takes no click
selectBlock ==
    /\ mounted
    /\ onSelectCalls < MaxSelections
    /\ \E i \in 1..Len(ItemsOf(View)) :
          /\ ~ItemsOf(View)[i].disabled
          /\ clicked' = Defined(ItemsOf(View)[i])
          /\ selectBlockCallback(ItemsOf(View)[i])
    /\ UNCHANGED <<mounted, blockTypes, blocks, recentlyUsedBlocks,
                   reusableBlocks, fetchStatus, fetchRequests>>

Next ==
    \/ componentDidMount
    \/ fetchSucceeds
    \/ fetchFails
    \/ filter
    \/ switchTab
    \/ selectBlock

Spec == Init /\ [][Next]_vars

----------------------------------------------------------------------------
(* Vocabulary of the properties *)

\* sub is full with some elements left out, the others in their order
RECURSIVE IsSubList(_, _)
IsSubList(sub, full) ==
    IF sub = <<>> THEN TRUE
    ELSE IF full = <<>> THEN FALSE
    ELSE IF Head(sub) = Head(full) THEN IsSubList(Tail(sub), Tail(full))
    ELSE IsSubList(sub, Tail(full))

\* how many elements of seq satisfy P
Count(seq, P(_)) == Cardinality({i \in 1..Len(seq) : P(seq[i])})

\* sub is exactly the elements of full that satisfy P, in the order of full
IsSelection(sub, full, P(_)) ==
    /\ IsSubList(sub, full)
    /\ \A i \in 1..Len(sub) : P(sub[i])
    /\ Len(sub) = Count(full, P)

\* text occurs in string, letter case ignored
ContainsIgnoringCase(string, text) ==
    \E i \in 0..Len(string) : OccursAt(toLowerCase(string), toLowerCase(text), i)

\* text occurs in the title of the block or in one of its keywords
TitleOrKeywordContains(block, text) ==
    \/ ContainsIgnoringCase(block.title, text)
    \/ /\ "keywords" \in DOMAIN block
       /\ \E k \in 1..Len(block.keywords) : ContainsIgnoringCase(block.keywords[k], text)

\* a shown item without its disabled mark
WithoutDisabled(item) == [k \in DOMAIN item \ {"disabled"} |-> item[k]]

\* the menu is searching
Searching == filterValue # <<>>

\* the names of the catalog items available now: the registered types that
\* are not private and that the setting allows, and the reusable blocks
AvailableNames ==
    {getBlockTypes[i].name : i \in {j \in 1..Len(getBlockTypes) :
        /\ ~("isPrivate" \in DOMAIN getBlockTypes[j] /\ getBlockTypes[j].isPrivate)
        /\ blockTypes.truthy
        /\ \/ ~blockTypes.isArray
           \/ \E n \in 1..Len(blockTypes.names) : blockTypes.names[n] = getBlockTypes[j].name}}
    \cup (IF reusableBlocks = <<>> THEN {} ELSE {"core/block"})

----------------------------------------------------------------------------
(* C1 *)

\* C1, as stated: searchBlocks( C, s ) on the catalog C and the search text s
\* of every state is a sub-list of C, and every returned item contains s
\* itself, letter case ignored, in its title or in one of its keywords.
C1_ContainsSearchText ==
    LET found == searchBlocks(getAllBlockTypes, filterValue)
    IN  /\ IsSubList(found, getAllBlockTypes)
        /\ \A i \in 1..Len(found) : TitleOrKeywordContains(found[i], filterValue)

\* C1, amended: searchBlocks( C, s ) is a sub-list of C, and every returned
\* item contains s with its leading and trailing whitespace removed, letter
\* case ignored, in its title or in one of its keywords.
C1_ContainsTrimmedSearchText ==
    LET found == searchBlocks(getAllBlockTypes, filterValue)
    IN  /\ IsSubList(found, getAllBlockTypes)
        /\ \A i \in 1..Len(found) : TitleOrKeywordContains(found[i], trim(filterValue))

\* a search text with an upper-case letter and trailing whitespace finds
\* some items of the catalog and leaves others out
C1_Witness ==
    LET found == searchBlocks(getAllBlockTypes, filterValue)
    IN  /\ filterValue = <<"A", " ">>
        /\ Len(found) > 0
        /\ Len(found) < Len(getAllBlockTypes)

----------------------------------------------------------------------------
(* C2 *)

\* C2: with no search text active, getBlocksForTab( 'recent' ) is exactly the
\* entries of the usage record whose name is the name of an available
\* catalog item, in the order of the usage record.
C2_RecentTab ==
    ~Searching =>
        IsSelection(getBlocksForTab(State, "recent"), recentlyUsedBlocks,
                    LAMBDA entry : entry.name \in AvailableNames)

\* the recent tab shows some entries of the usage record and leaves out others
C2_Witness ==
    /\ ~Searching
    /\ tab = "recent"
    /\ reusableBlocks # <<>>
    /\ Len(getBlocksForTab(State, "recent")) > 1
    /\ Len(getBlocksForTab(State, "recent")) < Len(recentlyUsedBlocks)

----------------------------------------------------------------------------
(* C3 *)

\* C3: with no search text active, getBlocksForTab returns, in catalog order,
\* exactly the catalog items of category 'embed' for the embeds tab, of
\* category 'reusable-blocks' for the saved tab, and of neither category for
\* the blocks tab.
C3_CategoryTabs ==
    ~Searching =>
        /\ IsSelection(getBlocksForTab(State, "embeds"), getAllBlockTypes,
                       LAMBDA item : item.category = "embed")
        /\ IsSelection(getBlocksForTab(State, "saved"), getAllBlockTypes,
                       LAMBDA item : item.category = "reusable-blocks")
        /\ IsSelection(getBlocksForTab(State, "blocks"), getAllBlockTypes,
                       LAMBDA item : item.category \notin {"embed", "reusable-blocks"})

\* the catalog holds items of all three kinds and the menu is on the blocks tab
C3_Witness ==
    /\ ~Searching
    /\ tab = "blocks"
    /\ getBlocksForTab(State, "embeds") # <<>>
    /\ getBlocksForTab(State, "saved") # <<>>
    /\ getBlocksForTab(State, "blocks") # <<>>

----------------------------------------------------------------------------
(* C4 *)

\* the items shown, without their disabled marks, as a set
ShownItems(el) == {WithoutDisabled(ItemsOf(el)[i]) : i \in 1..Len(ItemsOf(el))}

\* C4, as stated: while the search text is not empty, the items presented
\* are the result of searching the full catalog, whichever tab is active.
C4_SearchShowsFullCatalogMatches ==
    Searching =>
        LET found == searchBlocks(getAllBlockTypes, filterValue)
        IN  /\ ShownItems(View) = {found[i] : i \in 1..Len(found)}
            /\ \A t \in Tabs :
                  render([State EXCEPT !.tab = t]).content = View

----------------------------------------------------------------------------
(* C5 *)

\* the block type may be used once only
UseOnce(item) == "useOnce" \in DOMAIN item /\ item.useOnce

\* a block of the item's name is placed in the document
Placed(item) == item.name \in {blocks[i].name : i \in 1..Len(blocks)}

\* C5: every presented item is marked disabled exactly if it is useOnce and
\* a block of its name is placed in the document.
C5_DisabledIffUsedOnce ==
    \A i \in 1..Len(ItemsOf(View)) :
        LET item == ItemsOf(View)[i]
        IN  item.disabled <=> (UseOnce(item) /\ Placed(item))

\* after a selection and a tab switch, the search results show a disabled
\* item next to a placed one that is not disabled
C5_Witness ==
    /\ Searching
    /\ tab = "embeds"
    /\ onSelectCalls > 0
    /\ \E i, j \in 1..Len(ItemsOf(View)) :
          /\ ItemsOf(View)[i].disabled
          /\ ~ItemsOf(View)[j].disabled /\ Placed(ItemsOf(View)[j])

----------------------------------------------------------------------------
(* C6 *)

\* C6: a step in which the user selects an item calls onSelect once, with
\* the item's name and initialAttributes, empties the search text and keeps
\* the tab.
C6_SelectionCallsOnSelectOnce ==
    [][clicked'.defined =>
          /\ onSelectCalls' = onSelectCalls + 1
          /\ lastOnSelect'.value.name = clicked'.value.name
          /\ lastOnSelect'.value.initialAttributes =
                (IF "initialAttributes" \in DOMAIN clicked'.value
                 THEN Defined(clicked'.value.initialAttributes) ELSE undefined)
          /\ filterValue' = <<>>
          /\ tab' = tab]_vars

\* a second selection, of a reusable block found by a search on another tab
\* than the first
C6_Witness ==
    /\ clicked.defined
    /\ onSelectCalls = 2
    /\ tab = "embeds"
    /\ lastOnSelect.value.initialAttributes.defined
    /\ lastOnSelect.value.initialAttributes.value.ref = 2

----------------------------------------------------------------------------
(* C7 *)

\* the message 'No saved blocks.'
NoSavedBlocksMessage(el) ==
    el.element = "p" /\ el.className = "editor-inserter__no-tab-content-message"

\* C7: fetchReusableBlocks is called once, when the menu is mounted; until
\* the fetch has resolved, and when it has failed, the list of reusable
\* blocks is empty and the saved tab shows 'No saved blocks.'; once it has
\* resolved, the saved tab shows one item per fetched block, of category
\* 'reusable-blocks' and with initialAttributes.ref the block's id.
C7_FetchOnceAndSavedTab ==
    /\ fetchRequests = (IF mounted THEN 1 ELSE 0)
    /\ fetchStatus # "resolved" => reusableBlocks = <<>>
    /\ (tab = "saved" /\ ~Searching) =>
          IF fetchStatus # "resolved" \/ reusableBlocks = <<>>
          THEN NoSavedBlocksMessage(View)
          ELSE /\ Len(ItemsOf(View)) = Len(reusableBlocks)
               /\ \A i \in 1..Len(reusableBlocks) :
                     LET item == ItemsOf(View)[i]
                     IN  /\ item.category = "reusable-blocks"
                         /\ item.initialAttributes.ref = reusableBlocks[i].id
                         /\ item.title = reusableBlocks[i].title

\* the fetch resolved with two reusable blocks and the saved tab shows them
C7_Witness ==
    /\ fetchStatus = "resolved"
    /\ Len(reusableBlocks) = 2
    /\ tab = "saved"
    /\ ~Searching
    /\ Len(ItemsOf(View)) = 2

----------------------------------------------------------------------------
(* C8 *)

\* the category of the item is in the registry
KnownCategory(item) ==
    \E i \in 1..Len(getCategories) : getCategories[i].slug = item.category

\* the position of the item's known category in the registry
RegistryPosition(item) ==
    CHOOSE i \in 1..Len(getCategories) : getCategories[i].slug = item.category

\* a and b hold the same elements, each as often
IsPermutation(a, b) ==
    /\ Len(a) = Len(b)
    /\ \A i \in 1..Len(a) :
          Count(a, LAMBDA x : x = a[i]) = Count(b, LAMBDA x : x = a[i])

\* the lists the menu sorts: the catalog, the items of the tab, the matches
\* of the search
ListsToSort ==
    {getAllBlockTypes, getBlocksForTab(State, tab), searchBlocksOf(State, getAllBlockTypes)}

\* sorted is list ordered by registry position of the category
OrderedByRegistry(sorted, list) ==
    /\ IsPermutation(sorted, list)
    /\ \A i, j \in 1..Len(sorted) :
          (i < j /\ KnownCategory(sorted[i]) /\ KnownCategory(sorted[j])) =>
              RegistryPosition(sorted[i]) <= RegistryPosition(sorted[j])

\* C8, as stated: sortBlocks returns its input unchanged on the recent tab
\* with no search active; otherwise a permutation of it ordered by registry
\* position of the category, the items of unknown category last.
C8_UnknownCategoriesLast ==
    \A list \in ListsToSort :
        LET sorted == sortBlocks(State, list)
        IN  IF tab = "recent" /\ ~Searching THEN sorted = list
            ELSE /\ OrderedByRegistry(sorted, list)
                 /\ \A i, j \in 1..Len(sorted) :
                       (i < j /\ KnownCategory(sorted[j])) => KnownCategory(sorted[i])

\* C8, amended: sortBlocks returns its input unchanged on the recent tab
\* with no search active; otherwise a permutation of it ordered by registry
\* position of the category, the items of unknown category first.
C8_UnknownCategoriesFirst ==
    \A list \in ListsToSort :
        LET sorted == sortBlocks(State, list)
        IN  IF tab = "recent" /\ ~Searching THEN sorted = list
            ELSE /\ OrderedByRegistry(sorted, list)
                 /\ \A i, j \in 1..Len(sorted) :
                       (i < j /\ KnownCategory(sorted[i])) => KnownCategory(sorted[j])

\* on the blocks tab the catalog holds items of known and of unknown
\* category and is not in sorted order
C8_Witness ==
    /\ tab = "blocks"
    /\ ~Searching
    /\ sortBlocks(State, getAllBlockTypes) # getAllBlockTypes
    /\ \E i, j \in 1..Len(getAllBlockTypes) :
          KnownCategory(getAllBlockTypes[i]) /\ ~KnownCategory(getAllBlockTypes[j])

----------------------------------------------------------------------------
(* C9 *)

\* the items to present, after tab selection or search, sorting and grouping
Grouped ==
    IF Searching THEN getVisibleBlocksByCategory(State, getAllBlockTypes)
    ELSE getVisibleBlocksByCategory(State, getBlocksForTab(State, tab))

\* el shows exactly the items of list, flat, under no header
ShownFlat(el, list) ==
    /\ el.element = "InserterGroup"
    /\ ~el.labelledBy.defined
    /\ [i \in 1..Len(el.blockTypes) |-> WithoutDisabled(el.blockTypes[i])] = list

\* el shows every item under the header of the item's category
ShownUnderHeaders(el) ==
    /\ el.element # "InserterGroup"
    /\ el.element = "categories" =>
          \A i \in 1..Len(el.children) :
              el.children[i].defined =>
                  LET div == el.children[i].value
                  IN  /\ div.group.labelledBy = Defined(div.key)
                      /\ \A k \in 1..Len(div.group.blockTypes) :
                            div.group.blockTypes[k].category = div.key

\* C9, as stated: whenever the items to present fall into exactly one
\* category they are presented flat without a category header, in the tab
\* views and in the search results.
C9_SoleCategoryFlat ==
    Cardinality(DOMAIN Grouped) = 1 =>
        ShownFlat(View, Grouped[CHOOSE c \in DOMAIN Grouped : TRUE])

\* C9, amended: in the tab views, whenever the items to present fall into
\* exactly one category they are presented flat without a category header;
\* in the search results no item is presented flat, every item shown is
\* under the header of its category.
C9_SoleCategoryFlatInTabs ==
    /\ (~Searching /\ Cardinality(DOMAIN Grouped) = 1) =>
          ShownFlat(View, Grouped[CHOOSE c \in DOMAIN Grouped : TRUE])
    /\ Searching => ShownUnderHeaders(View)

\* the embeds tab shows its one item flat
C9_Witness ==
    /\ ~Searching
    /\ tab = "embeds"
    /\ Cardinality(DOMAIN Grouped) = 1
    /\ View.element = "InserterGroup"
    /\ Len(ItemsOf(View)) = 1

----------------------------------------------------------------------------
(* C10 *)

\* the message 'No blocks found'
NoResultsMessage(el) ==
    el.element = "span" /\ el.className = "editor-inserter__no-results"

\* C10, as stated: in the search results and in the views of the blocks,
\* embeds and saved tabs, a 'no results' message is shown exactly when no
\* item is shown.
C10_NoResultsIffNothingShown ==
    (Searching \/ tab \in {"blocks", "embeds", "saved"}) =>
        ((NoResultsMessage(View) \/ NoSavedBlocksMessage(View))
            <=> ItemsOf(View) = <<>>)

====
